---- MODULE Spec2Model ----
(***************************************************************************)
(* Model of python2native/C/call_mymath_linux.cpp: main() loads            *)
(* libpython3.12.so, loads the mymath extension module, resolves           *)
(* C_add_int and C_add_double with dlsym, calls them, and closes the       *)
(* module.  The dynamic loader (dlopen / dlsym / dlerror / dlclose) is the *)
(* environment: each call's outcome is chosen nondeterministically.        *)
(***************************************************************************)
EXTENDS Integers, Sequences, FiniteSets, TLC

\* Addresses are 0 (the null address) and 1..MaxAddr.
MaxAddr == 2

NULL == 0
Addr == 0..MaxAddr

\* Values of the loader's error indicator (and of the local `err`).
NoError == "NULL"
StaleError == "stale error"
OpenError == "cannot open shared object file"
SymbolError == "undefined symbol"

\* Process status: still running, or the status the parent observes.
Running == -1
SIGSEGV == 139

LIBPYTHON == "libpython3.12.so"
MYMATH == "./mymath.cpython-312-x86_64-linux-gnu.so"

VARIABLES
    pc,                 \* the statement main() is about to execute
    hpy,                \* void *hpy
    handle,             \* void *handle
    C_add_int_func,     \* C_add_int_t C_add_int_func
    C_add_double_func,  \* C_add_double_t C_add_double_func
    err,                \* const char *err
    dlerr,              \* the loader's error indicator, read by dlerror()
    loaded,             \* handles the loader currently holds open
    cerrOut,            \* lines written to std::cerr
    coutOut,            \* lines written to std::cout
    exitCode,           \* Running, or the process's exit status
    trace               \* history of loader calls and invocations

vars == <<pc, hpy, handle, C_add_int_func, C_add_double_func, err, dlerr,
          loaded, cerrOut, coutOut, exitCode, trace>>

\* One entry of the history: op is the call made ("dlopen", "dlsym",
\* "dlerror", "dlclose", "call", "cout", "cerr"); name the file, symbol or
\* message it is about; h the handle or address passed or returned; flags the
\* dlopen flags; args the call's arguments (for dlsym, the address it
\* returned; for cout, the value written); e the error string the call set,
\* returned or wrote.
Ev(op, name, h, flags, args, e) ==
    [op |-> op, name |-> name, h |-> h, flags |-> flags, args |-> args,
     e |-> e]

----------------------------------------------------------------------------
\* The loader API as main() uses it.

\* dlopen(file, flags) returning h: NULL sets the indicator; a successful
\* load leaves it as it was, or set by a failed lookup made while the
\* library and its dependencies were initialised.
dlopen(h, file, flags) ==
    /\ loaded' = IF h = NULL THEN loaded ELSE loaded \cup {h}
    /\ IF h = NULL THEN dlerr' = OpenError
                   ELSE dlerr' \in {dlerr, StaleError}
    /\ trace' = Append(trace, Ev("dlopen", file, h, flags, <<>>,
                                 IF h = NULL THEN OpenError ELSE NoError))

\* dlerror(): returns the indicator and clears it.
dlerrorEv == Ev("dlerror", "", NULL, {}, <<>>, dlerr)

dlerror ==
    /\ dlerr' = NoError
    /\ trace' = Append(trace, dlerrorEv)

\* dlsym(h, name) returning addr with outcome e: an error sets the
\* indicator, a successful lookup leaves it untouched.
dlsym(h, name, addr, e) ==
    /\ dlerr' = IF e = NoError THEN dlerr ELSE e
    /\ trace' = Append(trace, Ev("dlsym", name, h, {}, <<addr>>, e))

\* the record of a dlclose(h) call
dlcloseEv(h) == Ev("dlclose", "", h, {}, <<>>, NoError)

\* the record of std::cerr << msg << e << std::endl
cerrEv(msg, e) == Ev("cerr", msg, NULL, {}, <<>>, e)

\* the record of std::cout << label << value << std::endl
coutEv(label, value) == Ev("cout", label, NULL, {}, <<value>>, NoError)

\* The exported functions of the module (mymath_c_api.h): each returns the
\* sum.  main() passes the literals (2, 3) and (1.5, 2.5) only, so no sum
\* leaves the range of int; doubles are written in tenths.
C_add_int(a, b) == a + b

C_add_double(a, b) == a + b

\* What a call through a null function pointer may return if it returns.
Garbage == 0..MaxAddr

----------------------------------------------------------------------------
Init ==
    /\ pc = "open_prerequisite"
    /\ hpy = NULL
    /\ handle = NULL
    /\ C_add_int_func = NULL
    /\ C_add_double_func = NULL
    /\ err = NoError
    /\ dlerr = NoError
    /\ loaded = {}
    /\ cerrOut = <<>>
    /\ coutOut = <<>>
    /\ exitCode = Running
    /\ trace = <<>>

\* line 12
OpenPrerequisite ==
    /\ pc = "open_prerequisite"
    /\ \E h \in Addr :
          /\ hpy' = h
          /\ dlopen(h, LIBPYTHON, {"RTLD_NOW", "RTLD_GLOBAL"})
    /\ pc' = "check_prerequisite"
    /\ UNCHANGED <<handle, C_add_int_func, C_add_double_func, err,
                   cerrOut, coutOut, exitCode>>

\* lines 13-17
CheckPrerequisite ==
    /\ pc = "check_prerequisite"
    /\ IF hpy = NULL
       THEN /\ dlerr' = NoError
            /\ trace' = trace \o <<dlerrorEv,
                                   cerrEv("dlopen libpython error: ", dlerr)>>
            /\ cerrOut' = Append(cerrOut, <<"dlopen libpython error: ", dlerr>>)
            /\ exitCode' = 1
            /\ pc' = "exited"
       ELSE /\ pc' = "open_module"
            /\ UNCHANGED <<dlerr, trace, cerrOut, exitCode>>
    /\ UNCHANGED <<hpy, handle, C_add_int_func, C_add_double_func, err,
                   loaded, coutOut>>

\* line 20
OpenModule ==
    /\ pc = "open_module"
    /\ \E h \in Addr \ {hpy} :
          /\ handle' = h
          /\ dlopen(h, MYMATH, {"RTLD_NOW"})
    /\ pc' = "check_module"
    /\ UNCHANGED <<hpy, C_add_int_func, C_add_double_func, err,
                   cerrOut, coutOut, exitCode>>

\* CheckModule without the test of line 21
CheckModule_NoCheck ==
    /\ pc = "check_module"
    /\ pc' = "clear_error"
    /\ UNCHANGED <<hpy, handle, C_add_int_func, C_add_double_func, err,
                   dlerr, loaded, cerrOut, coutOut, exitCode, trace>>

\* lines 21-25
CheckModule ==
    /\ pc = "check_module"
    /\ IF handle = NULL
       THEN /\ dlerr' = NoError
            /\ trace' = trace \o <<dlerrorEv, cerrEv("dlopen error: ", dlerr)>>
            /\ cerrOut' = Append(cerrOut, <<"dlopen error: ", dlerr>>)
            /\ exitCode' = 1
            /\ pc' = "exited"
       ELSE /\ pc' = "clear_error"
            /\ UNCHANGED <<dlerr, trace, cerrOut, exitCode>>
    /\ UNCHANGED <<hpy, handle, C_add_int_func, C_add_double_func, err,
                   loaded, coutOut>>

\* ClearError without the dlerror() of line 27
ClearError_Omitted ==
    /\ pc = "clear_error"
    /\ pc' = "resolve_add_int"
    /\ UNCHANGED <<hpy, handle, C_add_int_func, C_add_double_func, err,
                   dlerr, loaded, cerrOut, coutOut, exitCode, trace>>

\* line 27
ClearError ==
    /\ pc = "clear_error"
    /\ dlerror
    /\ pc' = "resolve_add_int"
    /\ UNCHANGED <<hpy, handle, C_add_int_func, C_add_double_func, err,
                   loaded, cerrOut, coutOut, exitCode>>

\* lines 30-31
ResolveAddInt ==
    /\ pc = "resolve_add_int"
    /\ \E addr \in Addr, e \in {NoError, SymbolError} :
          /\ C_add_int_func' = addr
          /\ dlsym(handle, "C_add_int", addr, e)
    /\ pc' = "read_error_add_int"
    /\ UNCHANGED <<hpy, handle, C_add_double_func, err, loaded,
                   cerrOut, coutOut, exitCode>>

\* line 32
ReadErrorAddInt ==
    /\ pc = "read_error_add_int"
    /\ err' = dlerr
    /\ dlerror
    /\ pc' = "check_add_int"
    /\ UNCHANGED <<hpy, handle, C_add_int_func, C_add_double_func, loaded,
                   cerrOut, coutOut, exitCode>>

\* CheckAddInt without the test of line 33
CheckAddInt_NoCheck ==
    /\ pc = "check_add_int"
    /\ pc' = "resolve_add_double"
    /\ UNCHANGED <<hpy, handle, C_add_int_func, C_add_double_func, err,
                   dlerr, loaded, cerrOut, coutOut, exitCode, trace>>

\* CheckAddInt without the return of line 37
CheckAddInt_FallThrough ==
    /\ pc = "check_add_int"
    /\ IF err # NoError
       THEN /\ cerrOut' = Append(cerrOut, <<"dlsym(C_add_int) error: ", err>>)
            /\ loaded' = loaded \ {handle}
            /\ trace' = trace \o <<cerrEv("dlsym(C_add_int) error: ", err),
                                   dlcloseEv(handle)>>
       ELSE UNCHANGED <<cerrOut, loaded, trace>>
    /\ pc' = "resolve_add_double"
    /\ UNCHANGED <<hpy, handle, C_add_int_func, C_add_double_func, err,
                   dlerr, coutOut, exitCode>>

\* lines 33-38
CheckAddInt ==
    /\ pc = "check_add_int"
    /\ IF err # NoError
       THEN /\ cerrOut' = Append(cerrOut, <<"dlsym(C_add_int) error: ", err>>)
            /\ loaded' = loaded \ {handle}
            /\ trace' = trace \o <<cerrEv("dlsym(C_add_int) error: ", err),
                                   dlcloseEv(handle)>>
            /\ exitCode' = 1
            /\ pc' = "exited"
       ELSE /\ pc' = "resolve_add_double"
            /\ UNCHANGED <<cerrOut, loaded, trace, exitCode>>
    /\ UNCHANGED <<hpy, handle, C_add_int_func, C_add_double_func, err,
                   dlerr, coutOut>>

\* ResolveAddDouble looking the symbol up in hpy instead of handle
ResolveAddDouble_WrongHandle ==
    /\ pc = "resolve_add_double"
    /\ \E addr \in Addr, e \in {NoError, SymbolError} :
          /\ C_add_double_func' = addr
          /\ dlsym(hpy, "C_add_double", addr, e)
    /\ pc' = "read_error_add_double"
    /\ UNCHANGED <<hpy, handle, C_add_int_func, err, loaded,
                   cerrOut, coutOut, exitCode>>

\* lines 40-41
ResolveAddDouble ==
    /\ pc = "resolve_add_double"
    /\ \E addr \in Addr, e \in {NoError, SymbolError} :
          /\ C_add_double_func' = addr
          /\ dlsym(handle, "C_add_double", addr, e)
    /\ pc' = "read_error_add_double"
    /\ UNCHANGED <<hpy, handle, C_add_int_func, err, loaded,
                   cerrOut, coutOut, exitCode>>

\* line 42
ReadErrorAddDouble ==
    /\ pc = "read_error_add_double"
    /\ err' = dlerr
    /\ dlerror
    /\ pc' = "check_add_double"
    /\ UNCHANGED <<hpy, handle, C_add_int_func, C_add_double_func, loaded,
                   cerrOut, coutOut, exitCode>>

\* CheckAddDouble without the dlclose of line 46
CheckAddDouble_NoRelease ==
    /\ pc = "check_add_double"
    /\ IF err # NoError
       THEN /\ cerrOut' = Append(cerrOut, <<"dlsym(C_add_double) error: ", err>>)
            /\ trace' = Append(trace, cerrEv("dlsym(C_add_double) error: ", err))
            /\ exitCode' = 1
            /\ pc' = "exited"
       ELSE /\ pc' = "call_add_int"
            /\ UNCHANGED <<cerrOut, trace, exitCode>>
    /\ UNCHANGED <<hpy, handle, C_add_int_func, C_add_double_func, err,
                   dlerr, loaded, coutOut>>

\* lines 43-48
CheckAddDouble ==
    /\ pc = "check_add_double"
    /\ IF err # NoError
       THEN /\ cerrOut' = Append(cerrOut, <<"dlsym(C_add_double) error: ", err>>)
            /\ loaded' = loaded \ {handle}
            /\ trace' = trace \o <<cerrEv("dlsym(C_add_double) error: ", err),
                                   dlcloseEv(handle)>>
            /\ exitCode' = 1
            /\ pc' = "exited"
       ELSE /\ pc' = "call_add_int"
            /\ UNCHANGED <<cerrOut, loaded, trace, exitCode>>
    /\ UNCHANGED <<hpy, handle, C_add_int_func, C_add_double_func, err,
                   dlerr, coutOut>>

\* A call through the function pointer f.  Through a non-null address the
\* module's function runs and its value is written to std::cout.  Through
\* the null address the behaviour is undefined: the process is killed by
\* SIGSEGV, or the call returns some value and main() goes on.
callEv(f, name, args) == Ev("call", name, f, {}, args, NoError)

Invoke(f, name, args, value, label, next) ==
    \/ /\ f # NULL
       /\ trace' = trace \o <<callEv(f, name, args), coutEv(label, value)>>
       /\ coutOut' = Append(coutOut, <<label, value>>)
       /\ pc' = next
       /\ UNCHANGED exitCode
    \/ /\ f = NULL
       /\ \/ /\ trace' = Append(trace, callEv(f, name, args))
             /\ exitCode' = SIGSEGV
             /\ pc' = "crashed"
             /\ UNCHANGED coutOut
          \/ \E g \in Garbage :
                /\ trace' = trace \o <<callEv(f, name, args), coutEv(label, g)>>
                /\ coutOut' = Append(coutOut, <<label, g>>)
                /\ pc' = next
                /\ UNCHANGED exitCode

\* line 51
CallAddInt ==
    /\ pc = "call_add_int"
    /\ Invoke(C_add_int_func, "C_add_int", <<2, 3>>, C_add_int(2, 3),
              "C_add_int(2, 3) = ", "call_add_double")
    /\ UNCHANGED <<hpy, handle, C_add_int_func, C_add_double_func, err,
                   dlerr, loaded, cerrOut>>

\* lines 52-53; the doubles 1.5 and 2.5 are written in tenths
CallAddDouble ==
    /\ pc = "call_add_double"
    /\ Invoke(C_add_double_func, "C_add_double", <<15, 25>>,
              C_add_double(15, 25), "C_add_double(1.5, 2.5) = ",
              "close_module")
    /\ UNCHANGED <<hpy, handle, C_add_int_func, C_add_double_func, err,
                   dlerr, loaded, cerrOut>>

\* CloseModule without the dlclose of line 56
CloseModule_Skipped ==
    /\ pc = "close_module"
    /\ pc' = "return_0"
    /\ UNCHANGED <<hpy, handle, C_add_int_func, C_add_double_func, err,
                   dlerr, loaded, cerrOut, coutOut, exitCode, trace>>

\* line 56
CloseModule ==
    /\ pc = "close_module"
    /\ loaded' = loaded \ {handle}
    /\ trace' = Append(trace, dlcloseEv(handle))
    /\ pc' = "return_0"
    /\ UNCHANGED <<hpy, handle, C_add_int_func, C_add_double_func, err,
                   dlerr, cerrOut, coutOut, exitCode>>

\* line 57
ReturnSuccess ==
    /\ pc = "return_0"
    /\ exitCode' = 0
    /\ pc' = "exited"
    /\ UNCHANGED <<hpy, handle, C_add_int_func, C_add_double_func, err,
                   dlerr, loaded, cerrOut, coutOut, trace>>

Next ==
    \/ OpenPrerequisite
    \/ CheckPrerequisite
    \/ OpenModule
    \/ CheckModule
    \/ ClearError
    \/ ResolveAddInt
    \/ ReadErrorAddInt
    \/ CheckAddInt
    \/ ResolveAddDouble
    \/ ReadErrorAddDouble
    \/ CheckAddDouble
    \/ CallAddInt
    \/ CallAddDouble
    \/ CloseModule
    \/ ReturnSuccess

Spec == Init /\ [][Next]_vars

----------------------------------------------------------------------------
\* Vocabulary of the properties.

Idx == 1..Len(trace)
Ops(op) == {i \in Idx : trace[i].op = op}
Terminated == pc \in {"exited", "crashed"}
ModuleOpened ==
    \E i \in Ops("dlopen") : trace[i].name = MYMATH /\ trace[i].h # NULL
ModuleCloses == {i \in Ops("dlclose") : trace[i].h = handle}
Required == {"C_add_int", "C_add_double"}
\* the lookup of symbol nm whose dlerror() read returned no error
Resolved(nm) ==
    {i \in Ops("dlsym") : /\ trace[i].name = nm
                          /\ i + 1 \in Ops("dlerror")
                          /\ trace[i + 1].e = NoError}
AllSucceeded ==
    /\ hpy # NULL
    /\ handle # NULL
    /\ \A nm \in Required : Resolved(nm) # {}

\* C1: on every path on which the module was opened, dlclose is called on
\* the module handle exactly once before the process ends, and never twice.
C1_ReleasedExactlyOnce ==
    /\ Cardinality(Ops("dlclose")) <= 1
    /\ (Terminated /\ ModuleOpened) => Cardinality(ModuleCloses) = 1

\* C1, the path on which the claim fails: the module is open and the process
\* has been killed inside a call through a null address.
C1_CrashedWithModuleOpen ==
    pc = "crashed" /\ handle \in loaded /\ ModuleCloses = {}

\* C2 as stated: on every failure path no handle at all is left open when
\* main() returns 1.
C2_NoHandleLeftOpen ==
    (pc = "exited" /\ exitCode = 1) => loaded = {}

\* C2 amended: on every failure path the module handle, if it was opened,
\* has been released by exactly one dlclose when main() returns 1, and the
\* only handle still open is the prerequisite handle, if it was opened.
C2_ModuleReleasedOnFailure ==
    (pc = "exited" /\ exitCode = 1) =>
        /\ handle \notin loaded
        /\ loaded = (IF hpy = NULL THEN {} ELSE {hpy})
        /\ handle # NULL => Cardinality(ModuleCloses) = 1
        /\ handle = NULL => Ops("dlclose") = {}

C2_Witness ==
    /\ pc = "exited"
    /\ exitCode = 1
    /\ handle # NULL
    /\ Cardinality(ModuleCloses) = 1
    /\ loaded = {hpy}

\* C3: main() always ends with exit code 0 or 1; 0 exactly when both loads
\* and both resolutions succeeded; exactly one diagnostic on a path
\* returning 1 and none on the path returning 0.
C3_ExitCodeAndDiagnostic ==
    /\ Terminated \/ ENABLED Next
    /\ Terminated =>
          /\ exitCode \in {0, 1}
          /\ exitCode = 0 <=> AllSucceeded
          /\ exitCode = 1 => Len(cerrOut) = 1
          /\ exitCode = 0 => cerrOut = <<>>

\* C4: a typed function reference is invoked only after its own resolution
\* read back no error, and nothing is invoked unless both required symbols
\* were resolved without error.
C4_InvokeOnlyResolved ==
    /\ \A i \in Ops("call") :
          \A nm \in Required : \E j \in Resolved(nm) : j < i
    /\ (\E j \in Ops("dlsym") : j + 1 \in Idx /\ trace[j + 1].e # NoError)
          => Ops("call") = {}
    /\ pc \in {"call_add_int", "call_add_double"} =>
          \A nm \in Required : Resolved(nm) # {}

C4_Witness ==
    /\ \E i \in Ops("call") : trace[i].name = "C_add_int"
    /\ \E i \in Ops("call") : trace[i].name = "C_add_double"

\* C5: once dlclose has been called on the module handle, no later dlsym is
\* issued and no function reference is invoked.
C5_NoUseAfterRelease ==
    /\ \A i \in Ops("dlclose") :
          \A j \in Idx : j > i => trace[j].op \notin {"dlsym", "call"}
    /\ Ops("dlclose") # {} =>
          pc \notin {"resolve_add_int", "resolve_add_double",
                     "call_add_int", "call_add_double"}

C5_Witness ==
    /\ Ops("dlclose") # {}
    /\ Ops("dlsym") # {}
    /\ Ops("call") # {}
    /\ pc = "return_0"

\* C6: the prerequisite library is opened exactly once and first, with
\* immediate binding and global visibility; the module is opened, with
\* immediate binding, only after that open succeeded; a symbol is resolved
\* or a function invoked only after the module open succeeded.
C6_LoadBeforeResolve ==
    /\ trace # <<>> =>
          /\ trace[1].op = "dlopen"
          /\ trace[1].name = LIBPYTHON
          /\ trace[1].flags = {"RTLD_NOW", "RTLD_GLOBAL"}
    /\ Cardinality({i \in Ops("dlopen") : trace[i].name = LIBPYTHON}) <= 1
    /\ \A i \in Ops("dlopen") :
          trace[i].name # LIBPYTHON =>
              /\ trace[i].name = MYMATH
              /\ "RTLD_NOW" \in trace[i].flags
              /\ i > 1
              /\ trace[1].h # NULL
    /\ \A i \in Ops("dlsym") \cup Ops("call") :
          \E j \in Ops("dlopen") :
              j < i /\ trace[j].name = MYMATH /\ trace[j].h # NULL
    /\ pc = "open_module" => hpy # NULL
    /\ pc \in {"resolve_add_int", "resolve_add_double"} => handle # NULL

C6_Witness ==
    /\ pc = "read_error_add_int"
    /\ Ops("dlsym") # {}
    /\ Cardinality(Ops("dlopen")) = 2

\* What main() does when everything succeeds, with the handles and addresses
\* of this run; a dlerror entry is compared without the value it returned
\* and a cout entry without the value it wrote.
Shape(ev) ==
    IF ev.op = "dlerror" THEN [ev EXCEPT !.e = NoError]
    ELSE IF ev.op = "cout" THEN [ev EXCEPT !.args = <<>>]
    ELSE ev

Shapes == [i \in Idx |-> Shape(trace[i])]

EndToEnd ==
    << Ev("dlopen", LIBPYTHON, hpy, {"RTLD_NOW", "RTLD_GLOBAL"}, <<>>, NoError),
       Ev("dlopen", MYMATH, handle, {"RTLD_NOW"}, <<>>, NoError),
       Ev("dlerror", "", NULL, {}, <<>>, NoError),
       Ev("dlsym", "C_add_int", handle, {}, <<C_add_int_func>>, NoError),
       Ev("dlerror", "", NULL, {}, <<>>, NoError),
       Ev("dlsym", "C_add_double", handle, {}, <<C_add_double_func>>, NoError),
       Ev("dlerror", "", NULL, {}, <<>>, NoError),
       Ev("call", "C_add_int", C_add_int_func, {}, <<2, 3>>, NoError),
       Ev("cout", "C_add_int(2, 3) = ", NULL, {}, <<>>, NoError),
       Ev("call", "C_add_double", C_add_double_func, {}, <<15, 25>>, NoError),
       Ev("cout", "C_add_double(1.5, 2.5) = ", NULL, {}, <<>>, NoError),
       Ev("dlclose", "", handle, {}, <<>>, NoError) >>

\* The steps of a run in the words of the end-to-end scenario: the dlerror
\* calls belong to the resolutions, and writing a result to std::cout is
\* taken as the scenario's "results" step.
Step(ev) == IF ev.op = "cout" THEN "results" ELSE ev.op
Steps ==
    LET keep == SelectSeq(trace, LAMBDA ev : ev.op # "dlerror")
    IN  [i \in 1..Len(keep) |-> Step(keep[i])]

\* C7 as stated: on full success the steps are open, open, resolve, resolve,
\* invoke, invoke, then the results, then release, and exit code 0.
C7_ScenarioAsStated ==
    (/\ pc = "exited"
     /\ AllSucceeded
     /\ \A i \in Ops("call") : trace[i].h # NULL) =>
        /\ exitCode = 0
        /\ Steps = <<"dlopen", "dlopen", "dlsym", "dlsym", "call", "call",
                     "results", "dlclose">>

\* C7 amended: when both loads succeed and both resolutions read back no
\* error, a finished run is exactly EndToEnd (each result written to
\* std::cout right after its invocation, nothing asserted) with exit code
\* 0, or EndToEnd cut off at an invocation through the null address that
\* killed the process.
C7_EndToEnd ==
    (Terminated /\ AllSucceeded) =>
        \/ /\ exitCode = 0
           /\ Shapes = EndToEnd
        \/ /\ exitCode = SIGSEGV
           /\ Len(trace) < Len(EndToEnd)
           /\ Shapes = SubSeq(EndToEnd, 1, Len(trace))
           /\ trace[Len(trace)].op = "call"
           /\ trace[Len(trace)].h = NULL

C7_Witness ==
    /\ pc = "exited"
    /\ exitCode = 0
    /\ AllSucceeded
    /\ C_add_int_func # NULL
    /\ C_add_double_func # NULL
    /\ coutOut = << <<"C_add_int(2, 3) = ", 5>>,
                    <<"C_add_double(1.5, 2.5) = ", 40>> >>

\* C8: the prerequisite handle, once opened, stays open in every later
\* state, is never passed to dlclose and never to dlsym: every lookup uses
\* the module handle.
C8_PrerequisiteStaysOpen ==
    /\ hpy # NULL => hpy \in loaded
    /\ \A i \in Ops("dlclose") : trace[i].h # hpy
    /\ \A i \in Ops("dlsym") :
          /\ trace[i].h # hpy
          /\ trace[i].h = handle
          /\ handle # NULL

C8_Witness ==
    /\ Terminated
    /\ hpy \in loaded
    /\ Cardinality(Ops("dlsym")) = 2
    /\ Ops("dlclose") # {}

\* C9: each dlsym is issued with the error indicator clear; the indicator is
\* read by the very next loader call; and that read alone decides: a set
\* indicator leads to the diagnostic and no invocation, whatever address was
\* returned, and a clear one lets main() go on.
C9_CheckAfterClear ==
    /\ pc \in {"resolve_add_int", "resolve_add_double"} => dlerr = NoError
    /\ pc \in {"check_add_int", "check_add_double"} =>
          /\ trace[Len(trace)].op = "dlerror"
          /\ err = trace[Len(trace)].e
    /\ \A i \in Ops("dlsym") :
          /\ i = Len(trace) =>
                pc \in {"read_error_add_int", "read_error_add_double"}
          /\ i < Len(trace) =>
                /\ trace[i + 1].op = "dlerror"
                /\ trace[i + 1].e = trace[i].e
          /\ i + 2 <= Len(trace) =>
                IF trace[i].e # NoError
                THEN /\ trace[i + 2].op = "cerr"
                     /\ trace[i + 2].e = trace[i].e
                     /\ Ops("call") = {}
                     /\ exitCode = 1
                ELSE trace[i + 2].op \in {"dlsym", "call"}

C9_Witness ==
    /\ pc = "exited"
    /\ trace[3].op = "dlerror"
    /\ trace[3].e = StaleError
    /\ \E i \in Ops("dlsym") :
          /\ trace[i].name = "C_add_double"
          /\ trace[i].e # NoError
          /\ trace[i].args[1] # NULL

\* C10: every function reference main() invokes holds a non-null address.
C10_NeverCallNull ==
    \A i \in Ops("call") : trace[i].h # NULL
====
